---- MODULE Spec2Model ----
(***************************************************************************)
(* Session orchestration of the remote-desktop web client:                 *)
(* GuacamoleConnection (connection state machine, setup and teardown) and  *)
(* the subsystems it owns: ClipboardManager, KeyboardStateManager,         *)
(* MouseCursorManager and ResolutionManager.                                *)
(*                                                                         *)
(* Every handler of the TypeScript source is a function from a state       *)
(* record s to the state record after the handler has returned; the        *)
(* fields of s are the variables below.  The browser is single threaded,   *)
(* so one handler is one atomic step.                                      *)
(***************************************************************************)
EXTENDS Integers, Sequences, FiniteSets, TLC

VARIABLES
  conn,  \* fields of the GuacamoleConnection object
  clip,  \* fields of the ClipboardManager instance last constructed
  kbd,   \* fields of the KeyboardStateManager instance last constructed
  cur,   \* fields of the MouseCursorManager instance last constructed
  res,   \* fields of the ResolutionManager instance last constructed
  dom,   \* host page: container geometry, pointer style, display element,
         \* pending timeouts, host clipboard and its reads and writes in flight
  env,   \* credential, transports constructed so far, the remote's key state,
         \* clipboard streams the remote has open
  out    \* what the handler that ran last did (observation only)

vars == <<conn, clip, kbd, cur, res, dom, env, out>>

----------------------------------------------------------------------------
(* Bounds of the model *)

MaxSessions == 2   \* transports constructed by one controller

DebounceTicks == 2 \* config.debounceMs, in ticks of the clock

MaxBurst == 3      \* resize signals counted in one burst

MaxPending == 2    \* clipboard reads, writes and remote streams in flight

MaxChunks == 2     \* text chunks the remote's clipboard streams deliver

\* Transport ids: one more than MaxSessions, for the controller that is
\* allowed one more reconnect (SpecAbandon).
Sessions == 1..(MaxSessions + 1)

\* Key symbols the keyboard adapter reports
Keys == {65}

\* Key symbols of the keyboard guard on its own: a letter and Shift_L
KeySyms == {65, 65505}

\* Clipboard texts
Texts == {"X", "Y"}

----------------------------------------------------------------------------
(* Types *)

ConnectionState ==
  {"IDLE", "CONNECTING", "CONNECTED", "DISCONNECTING", "DISCONNECTED", "ERROR"}

\* Life of one transport (tunnel + client) as seen through its callbacks.
\*   none     not constructed
\*   opening  client.connect(data) was called, handshake in progress
\*   open     the client signalled state 3
\*   closing  client.disconnect() was called, close not yet signalled
\*   failedT / failedC / failedTC  tunnel / client / both reported an error
\*   closed   the client signalled state 5, or the handshake call threw
Phase ==
  {"none", "opening", "open", "closing", "failedT", "failedC", "failedTC",
   "closed"}

\* ResolutionManager.config defaults
DefaultConfig ==
  [minWidth |-> 640, minHeight |-> 480, maxWidth |-> 4096, maxHeight |-> 4096]

\* Partial<ResolutionConfig> values merged over the defaults by the
\* constructor of a stand-alone ResolutionManager.
Configs ==
  { DefaultConfig,
    [DefaultConfig EXCEPT !.minWidth = 642, !.minHeight = 482],
    [DefaultConfig EXCEPT !.minWidth = 2, !.minHeight = 2],
    [DefaultConfig EXCEPT !.maxWidth = 1280, !.maxHeight = 722] }

\* Container geometry.  w and h are the bounding rectangle in half CSS
\* pixels (getBoundingClientRect may be fractional); dpr is
\* window.devicePixelRatio in halves (0 stands for an unset ratio).
Geoms ==
  { [w |-> 3846, h |-> 2162, dpr |-> 2],
    [w |-> 0, h |-> 0, dpr |-> 2] }

ResGeoms ==
  Geoms \cup
  { [w |-> 3847, h |-> 2163, dpr |-> 2],
    [w |-> 2, h |-> 2, dpr |-> 2],
    [w |-> 2000, h |-> 1200, dpr |-> 3],
    [w |-> 9000, h |-> 9000, dpr |-> 0],
    [w |-> 2563, h |-> 1443, dpr |-> 4] }

----------------------------------------------------------------------------
(* The state record handlers work on *)

World ==
  [conn |-> conn, clip |-> clip, kbd |-> kbd, cur |-> cur, res |-> res,
   dom |-> dom, env |-> env, out |-> out]

\* The variables take the values of the state record t (the handler's result,
\* computed once).
Becomes(t) ==
  \E u \in {t} :
    /\ conn' = u.conn
    /\ clip' = u.clip
    /\ kbd' = u.kbd
    /\ cur' = u.cur
    /\ res' = u.res
    /\ dom' = u.dom
    /\ env' = u.env
    /\ out' = u.out

NoOutput ==
  [op |-> "init", arg |-> 0, stateLog |-> <<>>, notified |-> <<>>,
   errors |-> 0, teardown |-> <<>>, sent |-> <<>>, resets |-> 0,
   burst |-> 0, elapsed |-> 0, events |-> <<>>]

\* A handler named op starts running: the observation record is cleared.
Begin(s, op, arg) ==
  [s EXCEPT !.out = [NoOutput EXCEPT !.op = op, !.arg = arg]]

\* An instruction handed to the transport (a call of a send* method).
Instr(op, a, b, ok) == [op |-> op, a |-> a, b |-> b, ok |-> ok]

Sent(s, i) == [s EXCEPT !.out.sent = Append(@, i)]

Torn(s, step) == [s EXCEPT !.out.teardown = Append(@, step)]

\* What the UI and the page see of a handler, in the order it happens: a
\* state-change notification (the state notified), an error notification
\* ("error"), the start of cleanup() ("cleanup"), a pending timeout cancelled
\* ("clearTimeout").
Seen(s, e) == [s EXCEPT !.out.events = Append(@, e)]

----------------------------------------------------------------------------
(* ClipboardManager *)

\* Variant: the constructor already starts the poll and the listeners.
NewClipboardManager_Monitoring ==
  [client |-> TRUE, isMonitoring |-> TRUE, clipboardCheckInterval |-> TRUE,
   focusListener |-> TRUE, pasteListener |-> TRUE,
   lastLocalClipboard |-> "", lastRemoteClipboard |-> ""]

\* new ClipboardManager(client)
NewClipboardManager ==
  [client |-> TRUE, isMonitoring |-> FALSE, clipboardCheckInterval |-> FALSE,
   focusListener |-> FALSE, pasteListener |-> FALSE,
   lastLocalClipboard |-> "", lastRemoteClipboard |-> ""]

\* No instance was ever constructed.
NoClipboardManager ==
  [client |-> FALSE, isMonitoring |-> FALSE, clipboardCheckInterval |-> FALSE,
   focusListener |-> FALSE, pasteListener |-> FALSE,
   lastLocalClipboard |-> "", lastRemoteClipboard |-> ""]

\* Variant: startMonitoring() without the isMonitoring test.
clipStartMonitoring_Unguarded(s) ==
  [s EXCEPT !.clip.isMonitoring = TRUE,
            !.clip.clipboardCheckInterval = TRUE,
            !.dom.intervals = @ + 1,
            !.clip.focusListener = TRUE,
            !.clip.pasteListener = TRUE]

\* window.setInterval starts a timer of the page (dom.intervals counts the
\* live ones) and clipboardCheckInterval holds the handle of the last one;
\* addEventListener with the same function registers it once.
clipStartMonitoring(s) ==
  IF s.clip.isMonitoring THEN s
  ELSE [s EXCEPT !.clip.isMonitoring = TRUE,
                 !.clip.clipboardCheckInterval = TRUE,
                 !.dom.intervals = @ + 1,
                 !.clip.focusListener = TRUE,
                 !.clip.pasteListener = TRUE]

\* window.clearInterval(clipboardCheckInterval) stops the one timer the
\* handle names.
clipStopMonitoring(s) ==
  IF ~s.clip.isMonitoring THEN s
  ELSE [s EXCEPT !.clip.isMonitoring = FALSE,
                 !.clip.clipboardCheckInterval = FALSE,
                 !.dom.intervals =
                    IF s.clip.clipboardCheckInterval THEN @ - 1 ELSE @,
                 !.clip.focusListener = FALSE,
                 !.clip.pasteListener = FALSE]

\* Variant: destroy() keeps the transport reference.
clipDestroy_KeepClient(s) == clipStopMonitoring(s)

clipDestroy(s) ==
  [clipStopMonitoring(s) EXCEPT !.clip.client = FALSE]

\* document.execCommand('copy') on a hidden textarea; successful is its
\* result (a throw is caught and is FALSE here).
fallbackCopyToClipboard(s, text, successful) ==
  IF successful
  THEN [s EXCEPT !.dom.clipboard = [text |-> text, origin |-> "remote"],
                 !.clip.lastLocalClipboard = text]
  ELSE s

\* updateLocalClipboard up to its await: navigator.clipboard.writeText(text)
\* is started, or without the Clipboard API the fallback runs at once.
updateLocalClipboard(s, text, successful) ==
  IF s.dom.clipboardAPI
  THEN [s EXCEPT !.dom.writes = Append(@, text)]
  ELSE fallbackCopyToClipboard(s, text, successful)

\* updateLocalClipboard after its await: the write was granted and the host
\* clipboard holds the text, or it was rejected and the fallback runs.
writeSettled(s, text, granted, successful) ==
  IF granted
  THEN [s EXCEPT !.dom.clipboard = [text |-> text, origin |-> "remote"],
                 !.clip.lastLocalClipboard = text]
  ELSE fallbackCopyToClipboard(s, text, successful)

\* Variant: a chunk replaces what the reader has received so far.
readerOnText_Replace(clipboardData, text) == text

\* reader.ontext: clipboardData += text
readerOnText(clipboardData, text) == clipboardData \o text

\* reader.onend of a text/plain stream that delivered text
readerOnEnd(s, text, successful) ==
  updateLocalClipboard([s EXCEPT !.clip.lastRemoteClipboard = text],
                       text, successful)

\* ok = FALSE: createArgumentValueStream or the writer throws, the catch
\* block only logs.
sendToRemote(s, text, ok) ==
  IF ~s.clip.client \/ text = "" THEN s
  ELSE Sent(s, Instr("clipboard", text, 0, ok))

\* checkLocalClipboard up to its await: navigator.clipboard.readText() is
\* started and will deliver what the host clipboard holds.
checkLocalClipboard(s) ==
  IF s.dom.clipboardAPI
  THEN [s EXCEPT !.dom.reads = Append(@, s.dom.clipboard)]
  ELSE s

\* Variant: the text read is not compared with the last remote value.
WorthSending_LocalOnly(s, text) ==
  text # "" /\ text # s.clip.lastLocalClipboard

\* Variant: the text read is not compared with the last local value.
WorthSending_RemoteOnly(s, text) ==
  text # "" /\ text # s.clip.lastRemoteClipboard

\* text && text !== lastLocalClipboard && text !== lastRemoteClipboard
WorthSending(s, text) ==
  /\ text # ""
  /\ text # s.clip.lastLocalClipboard
  /\ text # s.clip.lastRemoteClipboard

\* Variant: a rejected read stops the monitoring.
readSettled_StopOnDenial(s, text, granted, ok) ==
  IF ~granted THEN clipStopMonitoring(s)
  ELSE IF WorthSending(s, text)
  THEN sendToRemote([s EXCEPT !.clip.lastLocalClipboard = text], text, ok)
  ELSE s

\* Variant: the text read is sent without being recorded.
readSettled_Unrecorded(s, text, granted, ok) ==
  IF granted /\ WorthSending(s, text) THEN sendToRemote(s, text, ok) ELSE s

\* checkLocalClipboard after its await: the read delivered text, or it was
\* rejected and the catch block only logs.
readSettled(s, text, granted, ok) ==
  IF granted /\ WorthSending(s, text)
  THEN sendToRemote([s EXCEPT !.clip.lastLocalClipboard = text], text, ok)
  ELSE s

\* Variant: the pasted text is sent without being recorded.
onPaste_Unrecorded(s, text, ok) == sendToRemote(s, text, ok)

onPaste(s, text, ok) ==
  IF text # ""
  THEN sendToRemote([s EXCEPT !.clip.lastLocalClipboard = text], text, ok)
  ELSE s

----------------------------------------------------------------------------
(* KeyboardStateManager *)

\* new KeyboardStateManager(client, keyboard): the constructor attaches the
\* visibilitychange, blur and focus listeners and wraps the adapter's
\* onkeydown / onkeyup.  pressedKeys is a JavaScript Set: insertion ordered.
NewKeyboardStateManager ==
  [client |-> TRUE, keyboard |-> TRUE, pressedKeys |-> <<>>,
   isActive |-> FALSE, listeners |-> TRUE]

NoKeyboardStateManager ==
  [NewKeyboardStateManager EXCEPT
     !.client = FALSE, !.keyboard = FALSE, !.listeners = FALSE]

Range(q) == {q[i] : i \in DOMAIN q}

SetAdd(q, k) == IF k \in Range(q) THEN q ELSE Append(q, k)

SetDelete(q, k) == SelectSeq(q, LAMBDA x : x # k)

\* keysToRelease.forEach: client.sendKeyEvent(false, keysym) inside try/catch;
\* with a null client the call throws and is caught, nothing is sent.
RECURSIVE releaseEach(_, _)
releaseEach(s, keys) ==
  IF keys = <<>> THEN s
  ELSE releaseEach(
         IF s.kbd.client THEN Sent(s, Instr("key", 0, Head(keys), TRUE)) ELSE s,
         Tail(keys))

\* Variant: the keys are released but the set is not cleared.
releaseAllKeys_KeepSet(s) ==
  IF Len(s.kbd.pressedKeys) = 0 THEN s
  ELSE LET s1 == releaseEach(s, s.kbd.pressedKeys)
       IN IF s1.kbd.keyboard THEN [s1 EXCEPT !.out.resets = @ + 1] ELSE s1

releaseAllKeys(s) ==
  IF Len(s.kbd.pressedKeys) = 0 THEN s
  ELSE LET s1 == releaseEach(s, s.kbd.pressedKeys)
           s2 == [s1 EXCEPT !.kbd.pressedKeys = <<>>]
       IN IF s2.kbd.keyboard THEN [s2 EXCEPT !.out.resets = @ + 1] ELSE s2

onVisibilityChange(s, hidden) == IF hidden THEN releaseAllKeys(s) ELSE s

onWindowBlur(s) == releaseAllKeys(s)

\* Variant: a focus event makes a release-all pass.
onWindowFocus_Release(s) == releaseAllKeys(s)

onWindowFocus(s) == [s EXCEPT !.kbd.pressedKeys = <<>>]

kbdActivate(s) ==
  IF s.kbd.isActive THEN s ELSE [s EXCEPT !.kbd.isActive = TRUE]

kbdDeactivate(s) ==
  IF ~s.kbd.isActive THEN s
  ELSE releaseAllKeys([s EXCEPT !.kbd.isActive = FALSE])

kbdDestroy(s) ==
  [kbdDeactivate(s) EXCEPT
     !.kbd.listeners = FALSE, !.kbd.client = FALSE, !.kbd.keyboard = FALSE]

----------------------------------------------------------------------------
(* MouseCursorManager *)

\* new MouseCursorManager(display, displayElement): registers display.oncursor
\* and hides the local cursor (the pointer style is kept in dom.cursor).
NewMouseCursorManager == [isRemoteCursorVisible |-> FALSE, oncursor |-> TRUE]

NoMouseCursorManager == [NewMouseCursorManager EXCEPT !.oncursor = FALSE]

hideLocalCursor(s) == [s EXCEPT !.dom.cursor = "none"]

showLocalCursor(s) == [s EXCEPT !.dom.cursor = "default"]

\* container.style.cursor = url(<canvas as PNG>) x y, auto
showRemoteCursor(s) ==
  [s EXCEPT !.cur.isRemoteCursorVisible = TRUE, !.dom.cursor = "image"]

\* Variant: hiding the remote cursor restores the host's default pointer.
hideRemoteCursor_Default(s) ==
  IF ~s.cur.isRemoteCursorVisible THEN s
  ELSE [s EXCEPT !.cur.isRemoteCursorVisible = FALSE, !.dom.cursor = "default"]

hideRemoteCursor(s) ==
  IF ~s.cur.isRemoteCursorVisible THEN s
  ELSE [s EXCEPT !.cur.isRemoteCursorVisible = FALSE, !.dom.cursor = "none"]

\* display.oncursor(canvas, x, y); canvas = FALSE: the remote hides its cursor
oncursor(s, canvas) ==
  IF canvas THEN showRemoteCursor(s) ELSE hideRemoteCursor(s)

\* MouseCursorManager.reset()
curReset(s) == hideLocalCursor(hideRemoteCursor(s))

\* Variant: destroy() leaves the host pointer hidden.
curDestroy_KeepHidden(s) == [s EXCEPT !.cur.oncursor = FALSE]

curDestroy(s) == [showLocalCursor(s) EXCEPT !.cur.oncursor = FALSE]

----------------------------------------------------------------------------
(* ResolutionManager *)

\* new ResolutionManager(client, container, config)
NewResolutionManager(config) ==
  [client |-> TRUE, isActive |-> FALSE, resizeObserver |-> FALSE,
   windowListener |-> FALSE, debounceTimer |-> FALSE,
   lastWidth |-> 0, lastHeight |-> 0, config |-> config]

NoResolutionManager ==
  [NewResolutionManager(DefaultConfig) EXCEPT !.client = FALSE]

Max(a, b) == IF a >= b THEN a ELSE b

Min(a, b) == IF a <= b THEN a ELSE b

\* Math.floor(Math.max(1, rectSide) * (devicePixelRatio || 1)), the side in
\* half pixels and the ratio in halves.
ScaledSide(half, dpr) ==
  (Max(2, half) * (IF dpr = 0 THEN 2 ELSE dpr)) \div 4

\* Math.max(min, Math.min(x, max))
Constrain(x, lo, hi) == Max(lo, Min(x, hi))

\* Math.floor(x / 4) * 4
AlignDown4(x) == (x \div 4) * 4

calculateOptimalSize(s) ==
  LET width == ScaledSide(s.dom.w, s.dom.dpr)
      height == ScaledSide(s.dom.h, s.dom.dpr)
      c == s.res.config
  IN [width |-> AlignDown4(Constrain(width, c.minWidth, c.maxWidth)),
      height |-> AlignDown4(Constrain(height, c.minHeight, c.maxHeight))]

\* Variant: the dimensions are recorded before the send is attempted.
sendSizeUpdate_RecordFirst(s, width, height, ok) ==
  IF ~s.res.client THEN s
  ELSE [Sent(s, Instr("size", width, height, ok)) EXCEPT
          !.res.lastWidth = width, !.res.lastHeight = height]

\* ok = FALSE: client.sendSize throws, the catch block only logs.
sendSizeUpdate(s, width, height, ok) ==
  IF ~s.res.client THEN s
  ELSE LET s1 == Sent(s, Instr("size", width, height, ok))
       IN IF ok
          THEN [s1 EXCEPT !.res.lastWidth = width, !.res.lastHeight = height]
          ELSE s1

sendInitialSize(s, ok) ==
  LET size == calculateOptimalSize(s)
  IN sendSizeUpdate(s, size.width, size.height, ok)

\* Variant: the recalculation sends without comparing with the last size.
performResize_Unconditional(s, ok) == sendInitialSize(s, ok)

performResize(s, ok) ==
  LET size == calculateOptimalSize(s)
  IN IF size.width = s.res.lastWidth /\ size.height = s.res.lastHeight
     THEN s
     ELSE sendSizeUpdate(s, size.width, size.height, ok)

\* window.clearTimeout(this.debounceTimer): the handle names the timeout set
\* last, the last entry of the page's timeout table.
clearTimeout(s) ==
  Seen([s EXCEPT !.dom.timeouts = SubSeq(@, 1, Len(@) - 1)], "clearTimeout")

\* this.debounceTimer = window.setTimeout(callback, config.debounceMs)
setTimeout(s) ==
  [s EXCEPT !.dom.timeouts = Append(@, DebounceTicks),
            !.res.debounceTimer = TRUE]

\* Variant: the pending timer is not cancelled before the new one is set.
scheduleResize_NoCancel(s) == setTimeout(s)

scheduleResize(s) ==
  setTimeout(IF s.res.debounceTimer THEN clearTimeout(s) ELSE s)

\* Variant: start() compares the initial size with the last one sent.
resStart_Compared(s, ok) ==
  IF s.res.isActive THEN s
  ELSE [performResize([s EXCEPT !.res.isActive = TRUE], ok) EXCEPT
          !.res.resizeObserver = TRUE, !.res.windowListener = TRUE]

resStart(s, ok) ==
  IF s.res.isActive THEN s
  ELSE [sendInitialSize([s EXCEPT !.res.isActive = TRUE], ok) EXCEPT
          !.res.resizeObserver = TRUE, !.res.windowListener = TRUE]

\* Variant: stop() leaves a pending debounce timer running.
resStop_KeepTimer(s) ==
  IF ~s.res.isActive THEN s
  ELSE [s EXCEPT !.res.isActive = FALSE,
                 !.res.resizeObserver = FALSE,
                 !.res.windowListener = FALSE]

resStop(s) ==
  IF ~s.res.isActive THEN s
  ELSE LET s1 == [s EXCEPT !.res.isActive = FALSE,
                           !.res.resizeObserver = FALSE,
                           !.res.windowListener = FALSE]
       IN IF s1.res.debounceTimer
          THEN [clearTimeout(s1) EXCEPT !.res.debounceTimer = FALSE]
          ELSE s1

\* Variant: destroy() drops the client without stopping.
resDestroy_ClientOnly(s) == [s EXCEPT !.res.client = FALSE]

resDestroy(s) == [resStop(s) EXCEPT !.res.client = FALSE]

\* The setTimeout callback of scheduleResize, run for entry i of the page's
\* timeout table.
debounceTimeout(s, i, ok) ==
  LET s1 == [s EXCEPT !.dom.timeouts =
                         SubSeq(@, 1, i - 1) \o SubSeq(@, i + 1, Len(@))]
  IN [performResize(s1, ok) EXCEPT !.res.debounceTimer = FALSE]

----------------------------------------------------------------------------
(* GuacamoleConnection *)

\* Some timer, listener or observer of the manager instances is still live.
LiveHooks(s) ==
  \/ s.clip.clipboardCheckInterval \/ s.clip.focusListener
  \/ s.clip.pasteListener
  \/ s.kbd.listeners
  \/ s.res.resizeObserver \/ s.res.windowListener \/ s.res.debounceTimer

setState(s, newState) ==
  IF s.conn.state = newState THEN s
  ELSE [s EXCEPT
          !.conn.state = newState,
          !.out.stateLog = Append(@, <<s.conn.state, newState>>),
          !.out.notified =
             IF s.conn.onStateChangeCallback THEN Append(@, newState) ELSE @,
          !.out.events =
             IF s.conn.onStateChangeCallback THEN Append(@, newState) ELSE @]

\* Variant: the keyboard guard is destroyed before the clipboard subsystem.
cleanup_KeyboardFirst(s) ==
  LET s0 == Seen(s, "cleanup")
      s1 == IF s0.conn.keyboardStateManager
            THEN Torn(kbdDestroy(s0), "keyboard") ELSE s0
      s2 == IF s1.conn.clipboardManager
            THEN Torn(clipDestroy(s1), "clipboard") ELSE s1
      s3 == IF s2.conn.mouseCursorManager
            THEN Torn(curDestroy(s2), "cursor") ELSE s2
      s4 == IF s3.conn.resolutionManager
            THEN Torn(resDestroy(s3), "resolution") ELSE s3
      s5 == [s4 EXCEPT !.conn.clipboardManager = FALSE,
                       !.conn.keyboardStateManager = FALSE,
                       !.conn.mouseCursorManager = FALSE,
                       !.conn.resolutionManager = FALSE]
      s6 == IF s5.conn.display /\ s5.conn.container /\ s5.dom.displayAttached
            THEN Torn([s5 EXCEPT !.dom.displayAttached = FALSE], "detach")
            ELSE s5
  IN Torn([s6 EXCEPT !.conn.client = 0,
                     !.conn.tunnel = 0,
                     !.conn.display = FALSE,
                     !.conn.mouse = FALSE,
                     !.conn.keyboard = FALSE,
                     !.conn.container = FALSE],
          "handles")

cleanup(s) ==
  LET s0 == Seen(s, "cleanup")
      s1 == IF s0.conn.clipboardManager
            THEN Torn(clipDestroy(s0), "clipboard") ELSE s0
      s2 == IF s1.conn.keyboardStateManager
            THEN Torn(kbdDestroy(s1), "keyboard") ELSE s1
      s3 == IF s2.conn.mouseCursorManager
            THEN Torn(curDestroy(s2), "cursor") ELSE s2
      s4 == IF s3.conn.resolutionManager
            THEN Torn(resDestroy(s3), "resolution") ELSE s3
      s5 == [s4 EXCEPT !.conn.clipboardManager = FALSE,
                       !.conn.keyboardStateManager = FALSE,
                       !.conn.mouseCursorManager = FALSE,
                       !.conn.resolutionManager = FALSE]
      s6 == IF s5.conn.display /\ s5.conn.container /\ s5.dom.displayAttached
            THEN Torn([s5 EXCEPT !.dom.displayAttached = FALSE], "detach")
            ELSE s5
  IN Torn([s6 EXCEPT !.conn.client = 0,
                     !.conn.tunnel = 0,
                     !.conn.display = FALSE,
                     !.conn.mouse = FALSE,
                     !.conn.keyboard = FALSE,
                     !.conn.container = FALSE],
          "handles")

\* if (this.onErrorCallback) this.onErrorCallback(error); src is the
\* transport the failure belongs to (0: none was constructed).
\* env.errNotified counts the calls made for the transport constructed last.
notifyError(s, src) ==
  IF ~s.conn.onErrorCallback THEN s
  ELSE LET s1 == Seen([s EXCEPT !.out.errors = @ + 1], "error")
       IN IF src # 0 /\ src = s.env.nSessions
          THEN [s1 EXCEPT !.env.errNotified = @ + 1]
          ELSE s1

\* Variant: the teardown runs before the error notification.
handleError_TeardownFirst(s, src) ==
  notifyError(cleanup(setState(s, "ERROR")), src)

handleError(s, src) == cleanup(notifyError(setState(s, "ERROR"), src))

setupInputHandlers(s) ==
  IF ~s.conn.container THEN s
  ELSE [s EXCEPT
          !.conn.display = TRUE,
          !.conn.mouse = TRUE,
          !.conn.keyboard = TRUE,
          !.dom.displayAttached = TRUE,
          !.dom.leaked = @ \/ LiveHooks(s),
          !.clip = NewClipboardManager,
          !.kbd = NewKeyboardStateManager,
          !.cur = NewMouseCursorManager,
          !.dom.cursor = "none",
          !.res = NewResolutionManager(DefaultConfig),
          !.conn.clipboardManager = TRUE,
          !.conn.keyboardStateManager = TRUE,
          !.conn.mouseCursorManager = TRUE,
          !.conn.resolutionManager = TRUE]

\* Where initializeConnection throws: "url" in buildWebSocketURL (new URL of
\* a malformed endpoint), before the tunnel exists; "connect" in the last
\* statements (getConnectionParams / client.connect), after the wiring.
ThrowPoints == {"none", "url", "connect"}

initializeConnection(s, throwAt) ==
  IF throwAt = "url" THEN s
  ELSE LET id == s.env.nSessions + 1
           s1 == [s EXCEPT !.env.nSessions = id,
                           !.env.errNotified = 0,
                           !.conn.tunnel = id,
                           !.conn.client = id]
           s2 == setupInputHandlers(s1)
       IN [s2 EXCEPT !.env.phase[id] =
                        IF throwAt = "connect" THEN "closed" ELSE "opening"]

\* Variant: the credential is never checked.
isValid_Unchecked(s) == TRUE

\* JWTAuthManager.isValid()
isValid(s) == s.env.tokenValid

\* Variant: connect() also goes ahead while a connection is pending.
ConnectAccepted_Pending(st) == st \in {"IDLE", "DISCONNECTED", "CONNECTING"}

\* The states in which connect() goes ahead.
ConnectAccepted(st) == st \in {"IDLE", "DISCONNECTED"}

connect(s, throwAt) ==
  IF ~ConnectAccepted(s.conn.state) THEN s
  ELSE IF ~isValid(s) THEN handleError(s, 0)
  ELSE LET s1 == setState([s EXCEPT !.conn.container = TRUE], "CONNECTING")
           s2 == initializeConnection(s1, throwAt)
       IN IF throwAt = "none" THEN s2 ELSE handleError(s2, s2.conn.tunnel)

onConnected(s, ok) ==
  LET s1 == setState(s, "CONNECTED")
      s2 == IF s1.conn.clipboardManager THEN clipStartMonitoring(s1) ELSE s1
      s3 == IF s2.conn.keyboardStateManager THEN kbdActivate(s2) ELSE s2
  IN IF s3.conn.resolutionManager THEN resStart(s3, ok) ELSE s3

onDisconnected(s) == cleanup(setState(s, "DISCONNECTED"))

\* Variant: disconnect() never asks the transport to close.
clientDisconnect_NoRequest(s) == s

\* client.disconnect() of the transport: a graceful close is requested; the
\* close itself is signalled later through client.onstatechange.
clientDisconnect(s) ==
  LET id == s.conn.client
  IN IF s.env.phase[id] \in {"opening", "open"}
     THEN [s EXCEPT !.env.phase[id] = "closing"]
     ELSE s

\* The states in which disconnect() returns at once.
DisconnectIgnored(st) == st \in {"DISCONNECTED", "DISCONNECTING"}

disconnect(s) ==
  IF DisconnectIgnored(s.conn.state) THEN s
  ELSE LET s1 == setState(s, "DISCONNECTING")
       IN IF s1.conn.client # 0 THEN clientDisconnect(s1)
          ELSE onDisconnected(s1)

\* mouse.onmousedown = onmouseup = onmousemove
mouseHandler(s) ==
  IF s.conn.client # 0 THEN Sent(s, Instr("mouse", 0, 0, TRUE)) ELSE s

\* keyboard.onkeydown / onkeyup as wrapped by KeyboardStateManager around the
\* handlers installed by setupInputHandlers.
keyDown(s, k) ==
  LET s1 == [s EXCEPT !.kbd.pressedKeys = SetAdd(@, k)]
  IN IF s1.conn.client # 0 THEN Sent(s1, Instr("key", 1, k, TRUE)) ELSE s1

\* Variant: the release is forwarded but the key stays in the set.
keyUp_KeepKey(s, k) ==
  IF s.conn.client # 0 THEN Sent(s, Instr("key", 0, k, TRUE)) ELSE s

keyUp(s, k) ==
  LET s1 == [s EXCEPT !.kbd.pressedKeys = SetDelete(@, k)]
  IN IF s1.conn.client # 0 THEN Sent(s1, Instr("key", 0, k, TRUE)) ELSE s1

----------------------------------------------------------------------------
(* Initial state: a GuacamoleConnection just constructed *)

NewConnection ==
  [state |-> "IDLE", client |-> 0, tunnel |-> 0, display |-> FALSE,
   mouse |-> FALSE, keyboard |-> FALSE, container |-> FALSE,
   clipboardManager |-> FALSE, keyboardStateManager |-> FALSE,
   mouseCursorManager |-> FALSE, resolutionManager |-> FALSE,
   onStateChangeCallback |-> FALSE, onErrorCallback |-> FALSE]

NewPage(g) ==
  [w |-> g.w, h |-> g.h, dpr |-> g.dpr, cursor |-> "auto",
   displayAttached |-> FALSE, leaked |-> FALSE, timeouts |-> <<>>,
   clipboardAPI |-> TRUE, clipboard |-> [text |-> "", origin |-> "user"],
   reads |-> <<>>, writes |-> <<>>, intervals |-> 0]

NewEnv(valid) ==
  [tokenValid |-> valid, nSessions |-> 0,
   phase |-> [i \in Sessions |-> "none"],
   errNotified |-> 0, remoteDown |-> {}, lastPressed |-> {}, streams |-> 0,
   readers |-> <<>>, delivered |-> 0, twins |-> {}]

Init ==
  /\ conn = NewConnection
  /\ clip = NoClipboardManager
  /\ kbd = NoKeyboardStateManager
  /\ cur = NoMouseCursorManager
  /\ res = NoResolutionManager
  /\ \E g \in Geoms : dom = NewPage(g)
  /\ \E valid \in BOOLEAN : env = NewEnv(valid)
  /\ out = NoOutput

----------------------------------------------------------------------------
(* Calls of the UI shell *)

Connect ==
  \E throwAt \in ThrowPoints :
    /\ (ConnectAccepted(conn.state) /\ isValid(World) /\ throwAt # "url")
          => env.nSessions < MaxSessions
    /\ Becomes(connect(Begin(World, "connect", 0), throwAt))

Disconnect == Becomes(disconnect(Begin(World, "disconnect", 0)))

OnStateChange ==
  /\ ~conn.onStateChangeCallback
  /\ Becomes([Begin(World, "onStateChange", 0) EXCEPT
                !.conn.onStateChangeCallback = TRUE])

OnError ==
  /\ ~conn.onErrorCallback
  /\ Becomes([Begin(World, "onError", 0) EXCEPT !.conn.onErrorCallback = TRUE])

\* JWTAuthManager.clear()
AuthClear ==
  /\ env.tokenValid
  /\ Becomes([Begin(World, "clear", 0) EXCEPT !.env.tokenValid = FALSE])

----------------------------------------------------------------------------
(* Callbacks of a transport; the handlers stay registered on the transport *)
(* object for as long as it lives.                                         *)

\* client.onstatechange(3)
TransportConnected(i) ==
  /\ env.phase[i] = "opening"
  /\ \E ok \in BOOLEAN :
       Becomes(onConnected(
         [Begin(World, "connected", i) EXCEPT !.env.phase[i] = "open"], ok))

\* client.onstatechange(5)
TransportClosed(i) ==
  /\ env.phase[i] \notin {"none", "closed"}
  /\ Becomes(onDisconnected(
       [Begin(World, "closed", i) EXCEPT !.env.phase[i] = "closed"]))

\* tunnel.onerror(status)
TunnelError(i) ==
  /\ env.phase[i] \in {"opening", "open", "closing", "failedC"}
  /\ Becomes(handleError(
       [Begin(World, "tunnelError", i) EXCEPT
          !.env.phase[i] = IF @ = "failedC" THEN "failedTC" ELSE "failedT"],
       i))

\* client.onerror(status)
ClientError(i) ==
  /\ env.phase[i] \in {"opening", "open", "closing", "failedT"}
  /\ Becomes(handleError(
       [Begin(World, "clientError", i) EXCEPT
          !.env.phase[i] = IF @ = "failedT" THEN "failedTC" ELSE "failedC"],
       i))

----------------------------------------------------------------------------
(* Host events *)

\* The layout changes the container's rectangle or the pixel ratio.
Layout(geoms) ==
  \E g \in geoms :
    /\ <<g.w, g.h, g.dpr>> # <<dom.w, dom.h, dom.dpr>>
    /\ Becomes([Begin(World, "layout", 0) EXCEPT
                  !.dom.w = g.w, !.dom.h = g.h, !.dom.dpr = g.dpr])

HostLayout == Layout(Geoms)

\* The ResizeObserver callback
ObserverSignal ==
  /\ res.resizeObserver
  /\ Becomes(scheduleResize(Begin(World, "resizeObserver", 0)))

\* onWindowResize
WindowResize ==
  /\ res.windowListener
  /\ Becomes(scheduleResize(Begin(World, "windowResize", 0)))

\* A pending timeout runs; how long it was pending is left open here.
DebounceFire ==
  \E i \in DOMAIN dom.timeouts, ok \in BOOLEAN :
    Becomes(debounceTimeout(Begin(World, "debounce", 0), i, ok))

\* The keyboard adapter of the current session reports a key.
KeyDown(k) ==
  /\ conn.keyboard
  /\ Becomes(keyDown(Begin(World, "keydown", k), k))

KeyUp(k) ==
  /\ conn.keyboard
  /\ k \in Range(kbd.pressedKeys)
  /\ Becomes(keyUp(Begin(World, "keyup", k), k))

Next ==
  \/ Connect
  \/ Disconnect
  \/ OnStateChange
  \/ OnError
  \/ AuthClear
  \/ \E i \in Sessions : TransportConnected(i)
  \/ \E i \in Sessions : TransportClosed(i)
  \/ \E i \in Sessions : TunnelError(i)
  \/ \E i \in Sessions : ClientError(i)
  \/ HostLayout
  \/ ObserverSignal
  \/ WindowResize
  \/ DebounceFire
  \/ \E k \in Keys : KeyDown(k)
  \/ \E k \in Keys : KeyUp(k)

Spec == Init /\ [][Next]_vars

----------------------------------------------------------------------------
(* A ResolutionManager on its own, constructed with any configuration *)

InitRes ==
  /\ conn = NewConnection
  /\ clip = NoClipboardManager
  /\ kbd = NoKeyboardStateManager
  /\ cur = NoMouseCursorManager
  /\ \E config \in Configs : res = NewResolutionManager(config)
  /\ \E g \in ResGeoms : dom = NewPage(g)
  /\ env = NewEnv(TRUE)
  /\ out = NoOutput

ResStart == \E ok \in BOOLEAN : Becomes(resStart(Begin(World, "start", 0), ok))

ResStop == Becomes(resStop(Begin(World, "stop", 0)))

\* forceResize()
ResForce ==
  \E ok \in BOOLEAN : Becomes(performResize(Begin(World, "forceResize", 0), ok))

ResDestroy == Becomes(resDestroy(Begin(World, "destroy", 0)))

ResLayout == Layout(ResGeoms)

NextRes ==
  \/ ResStart
  \/ ResStop
  \/ ResForce
  \/ ResDestroy
  \/ ResLayout
  \/ ObserverSignal
  \/ WindowResize
  \/ DebounceFire

SpecRes == InitRes /\ [][NextRes]_vars

TypeOK ==
  /\ conn.state \in ConnectionState
  /\ conn.client \in {0} \cup Sessions
  /\ env.nSessions \in {0} \cup Sessions
  /\ \A i \in Sessions : env.phase[i] \in Phase
  /\ env.errNotified \in 0..2
  /\ Range(kbd.pressedKeys) \subseteq Keys

----------------------------------------------------------------------------
(* Properties of the connection state machine *)

AnyTo(st) == {<<a, st>> : a \in ConnectionState \ {st}}

\* The transition table of the design.
LegalTransitions ==
  {<<"IDLE", "CONNECTING">>, <<"CONNECTING", "CONNECTED">>,
   <<"CONNECTED", "DISCONNECTING">>, <<"DISCONNECTED", "CONNECTING">>,
   <<"ERROR", "CONNECTING">>}
  \cup AnyTo("ERROR") \cup AnyTo("DISCONNECTED")

\* C1: every change of ConnectionState made by a handler is a transition of
\* the table: IDLE->CONNECTING, CONNECTING->CONNECTED, CONNECTED->DISCONNECTING,
\* any->ERROR, any->DISCONNECTED, DISCONNECTED->CONNECTING, ERROR->CONNECTING.
C1_LegalTransitionsOnly ==
  \A k \in DOMAIN out.stateLog : out.stateLog[k] \in LegalTransitions

ManagerRefs(c) ==
  {c.clipboardManager, c.keyboardStateManager, c.mouseCursorManager,
   c.resolutionManager}

Silent(o) ==
  /\ o.stateLog = <<>>
  /\ o.notified = <<>>
  /\ o.errors = 0
  /\ o.teardown = <<>>
  /\ o.sent = <<>>

C2_Step ==
  /\ (out'.op = "connect" /\ conn.state \in {"CONNECTING", "CONNECTED"})
        => /\ conn' = conn
           /\ <<clip', kbd', cur', res', dom', env'>>
                 = <<clip, kbd, cur, res, dom, env>>
           /\ Silent(out')
  /\ env'.nSessions # env.nSessions
        => conn.client = 0 /\ env'.nSessions = env.nSessions + 1
  /\ conn'.client \in {0, env'.nSessions}
  /\ conn'.tunnel = conn'.client

\* C2: connect() while CONNECTING or CONNECTED changes nothing and notifies
\* nothing; a transport is only constructed while no handle is owned, and the
\* handle owned is always the one constructed last.
C2_IdempotentConnect == [][C2_Step]_vars

C2_Witness ==
  /\ out.op = "connect"
  /\ conn.state = "CONNECTED"
  /\ conn.client # 0
  /\ Silent(out)

C3_Step ==
  (out'.op = "connect" /\ conn.state \in {"DISCONNECTED", "ERROR"}
     /\ env.tokenValid)
  => /\ out'.stateLog # <<>>
     /\ Head(out'.stateLog) = <<conn.state, "CONNECTING">>
     /\ Len(out'.stateLog) = 1
           => /\ conn'.state = "CONNECTING"
              /\ env'.nSessions = env.nSessions + 1
              /\ conn'.client = env'.nSessions

\* C3: connect() with a valid credential in DISCONNECTED or in ERROR moves to
\* CONNECTING and, unless the setup itself fails, constructs a new transport.
C3_FreshConnectAccepted == [][C3_Step]_vars

C4_Step ==
  (out'.op = "connect" /\ conn.state \in {"IDLE", "DISCONNECTED"}
     /\ ~env.tokenValid)
  => /\ conn'.state = "ERROR"
     /\ out'.stateLog = << <<conn.state, "ERROR">> >>
     /\ out'.errors = IF conn.onErrorCallback THEN 1 ELSE 0
     /\ env'.nSessions = env.nSessions
     /\ conn'.client = 0 /\ conn'.tunnel = 0
     /\ ManagerRefs(conn') = {FALSE}
     /\ <<clip', kbd', cur', res'>> = <<clip, kbd, cur, res>>

NotStarted ==
  /\ ~clip.isMonitoring /\ ~clip.clipboardCheckInterval
  /\ ~kbd.isActive
  /\ ~res.isActive /\ ~res.resizeObserver /\ ~res.debounceTimer

C5_Step ==
  /\ conn'.state \in {"IDLE", "CONNECTING"} => NotStarted'
  /\ (NotStarted /\ ~NotStarted')
        => out'.op = "connected" /\ conn'.state = "CONNECTED"
  /\ (ManagerRefs(conn) = {FALSE} /\ ManagerRefs(conn') # {FALSE})
        => out'.op = "connect" /\ ManagerRefs(conn') = {TRUE}

----------------------------------------------------------------------------
(* Properties of teardown *)

TeardownOrder ==
  <<"clipboard", "keyboard", "cursor", "resolution", "detach", "handles">>

Rank(step) == CHOOSE i \in DOMAIN TeardownOrder : TeardownOrder[i] = step

Subsystems == {"clipboard", "keyboard", "cursor", "resolution"}

\* C6: a teardown destroys clipboard, keyboard guard, cursor, resolution in
\* this order, then detaches the display element, then nulls the handles; no
\* subsystem is alive while the transport handle is released.
C6_TeardownOrder ==
  /\ \A i, j \in DOMAIN out.teardown :
        i < j => Rank(out.teardown[i]) < Rank(out.teardown[j])
  /\ out.teardown # <<>> => out.teardown[Len(out.teardown)] = "handles"
  /\ Range(out.teardown) \cap Subsystems \in {{}, Subsystems}
  /\ conn.client = 0
        => /\ ManagerRefs(conn) = {FALSE}
           /\ ~clip.client /\ ~kbd.client /\ ~cur.oncursor /\ ~res.client

C6_Witness ==
  /\ out.teardown = TeardownOrder
  /\ conn.client = 0

\* C7: in DISCONNECTED and in ERROR all four subsystems are destroyed, no
\* poll interval or debounce timer is pending, no listener or observer is
\* attached, and the transport, display, pointer, keyboard and container
\* references are null.
C7_TeardownComplete ==
  conn.state \in {"DISCONNECTED", "ERROR"}
  => /\ ManagerRefs(conn) = {FALSE}
     /\ ~clip.client /\ ~kbd.client /\ ~cur.oncursor /\ ~res.client
     /\ ~clip.isMonitoring /\ ~clip.clipboardCheckInterval
     /\ ~clip.focusListener /\ ~clip.pasteListener
     /\ ~kbd.isActive /\ ~kbd.listeners
     /\ ~res.isActive /\ ~res.resizeObserver /\ ~res.windowListener
     /\ ~res.debounceTimer
     /\ ~dom.leaked
     /\ conn.client = 0 /\ conn.tunnel = 0
     /\ ~conn.display /\ ~conn.mouse /\ ~conn.keyboard /\ ~conn.container

C7_Witness ==
  /\ conn.state = "DISCONNECTED"
  /\ out.op = "closed"
  /\ out.teardown = TeardownOrder
  /\ out.stateLog = << <<"CONNECTED", "DISCONNECTED">> >>

\* C8: a fatal failure moves the controller to ERROR and the error
\* notification is invoked once, not more, for the failures of one session's
\* transport, however many of its error callbacks report them.
C8_ErrorNotifiedOnce ==
  /\ out.op \in {"tunnelError", "clientError"} => conn.state = "ERROR"
  /\ env.errNotified <= 1

----------------------------------------------------------------------------
(* Properties of the sizes sent *)

SizesSent == {out.sent[k] : k \in {n \in DOMAIN out.sent : out.sent[n].op = "size"}}

PositiveMultipleOf4(x) == x > 0 /\ x % 4 = 0

\* C9: every width and height passed to sendSize is a positive multiple
\* of 4, for every container size, pixel ratio and configuration.
C9_PositiveMultipleOf4 ==
  \A i \in SizesSent : PositiveMultipleOf4(i.a) /\ PositiveMultipleOf4(i.b)

\* C10: every size sent lies within the configured bounds and both sides
\* are multiples of 4.
C10_WithinBounds ==
  \A i \in SizesSent :
    /\ res.config.minWidth <= i.a /\ i.a <= res.config.maxWidth
    /\ res.config.minHeight <= i.b /\ i.b <= res.config.maxHeight
    /\ i.a % 4 = 0 /\ i.b % 4 = 0

----------------------------------------------------------------------------
(* A ResolutionManager and the clock of the page's timeouts: start, stop,  *)
(* layout changes, resize signals and the passing of time.                 *)

\* The record t with the history of the running burst: burst is the number
\* of resize signals since the debounce timer was last idle (counted up to
\* MaxBurst), elapsed the ticks since the last of them (up to one more than
\* DebounceTicks).
Noted(t, burst, elapsed) ==
  [t EXCEPT !.out.burst = burst, !.out.elapsed = elapsed]

\* The history stays while a timeout is pending and is shown once more by the
\* timer callback that ends the burst.
Kept(t) ==
  IF t.dom.timeouts # <<>> \/ t.out.op = "debounce"
  THEN Noted(t, out.burst, out.elapsed)
  ELSE t

SignalNoted(op) ==
  Becomes(Noted(scheduleResize(Begin(World, op, 0)),
                IF dom.timeouts # <<>> THEN Min(out.burst + 1, MaxBurst) ELSE 1,
                0))

TimedObserverSignal == res.resizeObserver /\ SignalNoted("resizeObserver")

TimedWindowResize == res.windowListener /\ SignalNoted("windowResize")

\* One tick passes.  A timeout runs no earlier than its delay; the event loop
\* may run it later.
Tick ==
  Becomes(Noted([Begin(World, "tick", 0) EXCEPT
                   !.dom.timeouts = [i \in DOMAIN @ |-> Max(0, @[i] - 1)]],
                IF dom.timeouts # <<>> THEN out.burst ELSE 0,
                IF dom.timeouts # <<>>
                THEN Min(out.elapsed + 1, DebounceTicks + 1) ELSE 0))

\* A timeout whose delay has passed runs.
TimedFire ==
  \E i \in DOMAIN dom.timeouts, ok \in BOOLEAN :
    /\ dom.timeouts[i] = 0
    /\ Becomes(Kept(debounceTimeout(Begin(World, "debounce", 0), i, ok)))

TimedStart ==
  \E ok \in BOOLEAN : Becomes(Kept(resStart(Begin(World, "start", 0), ok)))

TimedStop == Becomes(Kept(resStop(Begin(World, "stop", 0))))

TimedLayout ==
  \E g \in ResGeoms :
    /\ <<g.w, g.h, g.dpr>> # <<dom.w, dom.h, dom.dpr>>
    /\ Becomes(Kept([Begin(World, "layout", 0) EXCEPT
                       !.dom.w = g.w, !.dom.h = g.h, !.dom.dpr = g.dpr]))

NextTimed ==
  \/ TimedStart
  \/ TimedStop
  \/ TimedLayout
  \/ TimedObserverSignal
  \/ TimedWindowResize
  \/ Tick
  \/ TimedFire

\* The negotiator as the controller constructs it: default configuration.
InitTimed == InitRes /\ res.config = DefaultConfig

SpecTimed == InitTimed /\ [][NextTimed]_vars

----------------------------------------------------------------------------
(* Properties of the resize debounce *)

ResizeSignals == {"resizeObserver", "windowResize"}

C11_StatedStep ==
  /\ out'.op \in ResizeSignals => out'.sent = <<>>
  /\ out'.op = "debounce" => Len(out'.sent) = 1

\* C11 as stated: the resize signals of a burst send nothing, and the timer
\* that ends the burst sends exactly one size instruction.
C11_OneInstructionPerBurst == [][C11_StatedStep]_vars

C11_Step ==
  /\ out'.op \in ResizeSignals
        => /\ out'.sent = <<>>
           /\ dom'.timeouts = <<DebounceTicks>>
  /\ out'.op = "debounce"
        => /\ out.burst >= 1
           /\ out.elapsed >= DebounceTicks
           /\ dom'.timeouts = <<>>
           /\ LET size == calculateOptimalSize(World)
              IN IF size.width = res.lastWidth /\ size.height = res.lastHeight
                 THEN out'.sent = <<>>
                 ELSE \E ok \in BOOLEAN :
                        out'.sent =
                          << Instr("size", size.width, size.height, ok) >>

\* C11 amended: while the negotiator is started, a resize signal sends
\* nothing and leaves exactly one timer pending, set to the full delay; the
\* timer runs no earlier than debounceMs after the last signal of the burst
\* and makes one recalculation from the container's geometry of that moment,
\* which sends one size instruction if the result differs from the last
\* dimensions sent and none otherwise: at most one instruction per burst.
C11_AtMostOnePerBurst == [][C11_Step]_vars

C11_Witness ==
  /\ out.op = "debounce"
  /\ out.burst >= 2
  /\ out.elapsed = DebounceTicks
  /\ Len(out.sent) = 1
  /\ res.isActive

Recalculations == {"debounce", "forceResize"}

\* The dimensions of the last successful sendSize, if there was one.
LastSent == <<res.lastWidth, res.lastHeight>>

C12_StatedStep ==
  \A k \in DOMAIN out'.sent :
    (out'.sent[k].op = "size" /\ out'.sent[k].ok /\ LastSent # <<0, 0>>)
    => <<out'.sent[k].a, out'.sent[k].b>> # LastSent

\* C12 as stated: over start(), stop(), resize signals, timer firings and
\* forceResize(), no successful sendSize carries the dimensions of the
\* successful sendSize before it.
C12_NoRepeatedSize == [][C12_StatedStep]_vars

C12_Step ==
  /\ Len(out'.sent) <= 1
  /\ out'.op \in Recalculations
        => /\ \A k \in DOMAIN out'.sent :
                <<out'.sent[k].a, out'.sent[k].b>> # LastSent
           /\ LET size == calculateOptimalSize(World)
              IN <<size.width, size.height>> = LastSent
                    => out'.sent = <<>>
  /\ \A k \in DOMAIN out'.sent :
        (out'.sent[k].ok /\ <<out'.sent[k].a, out'.sent[k].b>> = LastSent)
        => out'.op = "start"

\* C12 amended: a recalculation (timer firing or forceResize()) whose result
\* equals the last dimensions sent emits nothing, so no recalculation repeats
\* the last successful sendSize; start() sends the initial size without
\* comparing, so two consecutive successful sendSize calls with the same
\* dimensions occur only when the second is the initial size of a start()
\* (after a stop(), or after a forceResize() made before the first start()).
C12_NoRepeatByRecalculation == [][C12_Step]_vars

C12_Witness ==
  /\ out.op = "forceResize"
  /\ out.sent = <<>>
  /\ res.client /\ res.isActive
  /\ res.lastWidth # 0

----------------------------------------------------------------------------
(* The keyboard guard of one session: key events of the adapter, window    *)
(* blur and focus, document visibility, activate and deactivate.           *)

\* The keys the remote holds down after the instructions of sent.
RECURSIVE RemoteAfter(_, _)
RemoteAfter(down, sent) ==
  IF sent = <<>> THEN down
  ELSE LET i == Head(sent)
       IN RemoteAfter(
            IF i.op # "key" THEN down
            ELSE IF i.a = 1 THEN down \cup {i.b} ELSE down \ {i.b},
            Tail(sent))

\* The keys whose last event delivered by the adapter is a press, counted
\* from the last focus event or release-all pass, after the handler observed
\* in o.
PressedAfter(down, o) ==
  CASE o.op = "keydown" -> down \cup {o.arg}
    [] o.op = "keyup" -> down \ {o.arg}
    [] o.op \in {"blur", "hidden", "focus"} -> {}
    [] o.op \in {"deactivate", "destroy"} /\ kbd.isActive -> {}
    [] OTHER -> down

\* The record t with the remote's key state after the handler's instructions
\* and the history of the adapter's key events.
Heard(t) ==
  [t EXCEPT !.env.remoteDown = RemoteAfter(@, t.out.sent),
            !.env.lastPressed = PressedAfter(@, t.out)]

\* The variables have the values of the state record t.
Starts(t) ==
  /\ conn = t.conn
  /\ clip = t.clip
  /\ kbd = t.kbd
  /\ cur = t.cur
  /\ res = t.res
  /\ dom = t.dom
  /\ env = t.env
  /\ out = t.out

\* A controller just constructed, on a page with geometry g.
Fresh(g) ==
  [conn |-> NewConnection, clip |-> NoClipboardManager,
   kbd |-> NoKeyboardStateManager, cur |-> NoMouseCursorManager,
   res |-> NoResolutionManager, dom |-> NewPage(g), env |-> NewEnv(TRUE),
   out |-> NoOutput]

\* The state connect() leaves: transport constructed, input handlers and the
\* four managers set up, handshake in progress.
Wired(g) == [connect(Fresh(g), "none") EXCEPT !.out = NoOutput]

InitKbd == \E g \in Geoms : Starts(Wired(g))

KbdKeyDown(k) ==
  /\ conn.keyboard
  /\ Becomes(Heard(keyDown(Begin(World, "keydown", k), k)))

KbdKeyUp(k) ==
  /\ conn.keyboard
  /\ Becomes(Heard(keyUp(Begin(World, "keyup", k), k)))

WindowBlur ==
  /\ kbd.listeners
  /\ Becomes(Heard(onWindowBlur(Begin(World, "blur", 0))))

WindowFocus ==
  /\ kbd.listeners
  /\ Becomes(Heard(onWindowFocus(Begin(World, "focus", 0))))

VisibilityChange ==
  /\ kbd.listeners
  /\ \E hidden \in BOOLEAN :
       Becomes(Heard(onVisibilityChange(
         Begin(World, IF hidden THEN "hidden" ELSE "visible", 0), hidden)))

KbdActivate == Becomes(Heard(kbdActivate(Begin(World, "activate", 0))))

KbdDeactivate == Becomes(Heard(kbdDeactivate(Begin(World, "deactivate", 0))))

KbdDestroy == Becomes(Heard(kbdDestroy(Begin(World, "destroy", 0))))

NextKbd ==
  \/ \E k \in KeySyms : KbdKeyDown(k)
  \/ \E k \in KeySyms : KbdKeyUp(k)
  \/ WindowBlur
  \/ WindowFocus
  \/ VisibilityChange
  \/ KbdActivate
  \/ KbdDeactivate
  \/ KbdDestroy

SpecKbd == InitKbd /\ [][NextKbd]_vars

----------------------------------------------------------------------------
(* Properties of the keyboard guard *)

FocusLoss == {"blur", "hidden"}

Release(k) == Instr("key", 0, k, TRUE)

C13_Step ==
  out'.op \in FocusLoss
  => /\ Len(out'.sent) = Len(kbd.pressedKeys)
     /\ Range(out'.sent) = {Release(k) : k \in Range(kbd.pressedKeys)}
     /\ kbd'.pressedKeys = <<>>
     /\ out'.resets = IF kbd.pressedKeys = <<>> THEN 0 ELSE 1

C29_Step ==
  /\ out'.op = "keydown"
        => /\ Range(kbd'.pressedKeys) = Range(kbd.pressedKeys) \cup {out'.arg}
           /\ out'.sent = << Instr("key", 1, out'.arg, TRUE) >>
  /\ out'.op = "keyup"
        => /\ Range(kbd'.pressedKeys) = Range(kbd.pressedKeys) \ {out'.arg}
           /\ out'.sent = << Release(out'.arg) >>
  /\ Range(kbd'.pressedKeys) = env'.lastPressed

\* C29: a press delivered by the adapter adds its key to the pressed set and
\* is forwarded once, as one press instruction, by the original handler; a
\* release removes its key and is forwarded once; each within the handler
\* of the event itself, so in delivery order.  The pressed set is always the
\* set of keys whose last delivered event, counted from the last focus event
\* or release-all pass, is a press.
C29_PressedSetTracksKeys == [][C29_Step]_vars

C29_Witness ==
  /\ out.op = "keyup"
  /\ out.arg = 65
  /\ out.sent = << Release(65) >>
  /\ Range(kbd.pressedKeys) = {65505}
  /\ env.lastPressed = {65505}

C30_Step ==
  out'.op = "focus"
  => /\ kbd' = [kbd EXCEPT !.pressedKeys = <<>>]
     /\ out'.sent = <<>>
     /\ out'.resets = 0
     /\ env'.remoteDown = env.remoteDown
     /\ <<conn', clip', cur', res', dom'>> = <<conn, clip, cur, res, dom>>

\* C30: a window focus event empties the pressed set and does nothing else:
\* no instruction is sent, so the remote's key state stays as it was, the
\* adapter's reset is not invoked, and no other field of the guard, of the
\* controller or of the other subsystems changes.
C30_FocusOnlyClears == [][C30_Step]_vars

C30_Witness ==
  /\ out.op = "focus"
  /\ kbd.pressedKeys = <<>>
  /\ env.remoteDown = KeySyms
  /\ out.sent = <<>>

C31_Step ==
  /\ out'.op \in {"deactivate", "destroy"}
        => /\ {Release(k) : k \in Range(kbd.pressedKeys)}
                \subseteq Range(out'.sent)
           /\ kbd'.pressedKeys = <<>>
           /\ ~kbd'.isActive
  /\ out'.op = "destroy" => ~kbd'.listeners
  /\ (~kbd.listeners /\ out'.op \in {"blur", "focus", "hidden", "visible"})
        => out'.sent = <<>>

\* C31: when deactivate() or destroy() returns, whether or not the guard was
\* ever activated, a release instruction has been sent for every key that
\* was in the pressed set and the set is empty; destroy() detaches the blur,
\* focus and visibility listeners, and an event arriving with the listeners
\* detached sends nothing.
C31_ReleaseAllOnDeactivate == [][C31_Step]_vars

\* C14: immediately after a blur or a document-hidden event has been handled,
\* no key has a press as the most recent instruction sent to the remote.
C14_NoKeyHeldAfterBlur == out.op \in FocusLoss => env.remoteDown = {}

----------------------------------------------------------------------------
(* The clipboard synchronizer in one session of the controller: the host   *)
(* clipboard, its asynchronous reads and writes, the remote's clipboard    *)
(* streams, and the session's connect, error and teardown.                 *)

\* Entry i of the sequence q removed.
Without(q, i) == SubSeq(q, 1, i - 1) \o SubSeq(q, i + 1, Len(q))

\* The state connect() leaves, with both listeners of the UI registered.
InitClip ==
  \E api \in BOOLEAN :
    Starts([Wired(CHOOSE g \in Geoms : g.w > 0) EXCEPT !.conn.onStateChangeCallback = TRUE,
                            !.conn.onErrorCallback = TRUE,
                            !.dom.clipboardAPI = api])

\* Asynchronous clipboard operations in flight
Pending == Len(dom.reads) + Len(dom.writes) + env.streams

\* The user copies a text on the host.
HostCopy ==
  \E text \in Texts :
    /\ dom.clipboard # [text |-> text, origin |-> "user"]
    /\ Becomes([Begin(World, "copy", text) EXCEPT
                  !.dom.clipboard = [text |-> text, origin |-> "user"]])

\* The setInterval callback of startMonitoring
PollTick ==
  /\ dom.intervals > 0
  /\ Pending < MaxPending
  /\ Becomes(checkLocalClipboard(Begin(World, "poll", 0)))

\* onWindowFocus of the ClipboardManager
ClipWindowFocus ==
  /\ clip.focusListener
  /\ Pending < MaxPending
  /\ Becomes(checkLocalClipboard(Begin(World, "focusRead", 0)))

\* A readText() promise settles: it resolves with the text read or rejects.
ReadSettles ==
  \E i \in DOMAIN dom.reads, granted \in BOOLEAN, ok \in BOOLEAN :
    LET r == dom.reads[i]
        arg == [text |-> r.text, origin |-> r.origin, granted |-> granted]
    IN Becomes(readSettled(
         [Begin(World, "read", arg) EXCEPT !.dom.reads = Without(@, i)],
         r.text, granted, ok))

\* A writeText() promise settles.
WriteSettles ==
  \E i \in DOMAIN dom.writes, granted \in BOOLEAN, successful \in BOOLEAN :
    LET arg == [text |-> dom.writes[i], origin |-> "remote",
                granted |-> granted]
    IN Becomes(writeSettled(
         [Begin(World, "write", arg) EXCEPT !.dom.writes = Without(@, i)],
         dom.writes[i], granted, successful))

\* The document's paste event; its text is what the host clipboard holds.
Paste ==
  /\ clip.pasteListener
  /\ \E ok \in BOOLEAN :
       Becomes(onPaste(Begin(World, "paste", dom.clipboard.text),
                       dom.clipboard.text, ok))

\* The transports that still deliver instructions to client.onclipboard and
\* to the readers of its streams: connected and not asked to close.
Delivering(i) == i # 0 /\ env.phase[i] \in {"open", "failedC"}

\* client.onclipboard(stream, mimetype) while the synchronizer that set the
\* handler is alive; only text/plain gets a reader.
StreamBegins ==
  /\ Delivering(env.nSessions)
  /\ clip.client
  /\ \E plain \in BOOLEAN :
       /\ plain => Pending < MaxPending
       /\ Becomes([Begin(World, "onclipboard", plain) EXCEPT
                     !.env.streams = IF plain THEN @ + 1 ELSE @])

\* reader.onend
StreamEnds ==
  /\ Delivering(env.nSessions)
  /\ env.streams > 0
  /\ \E text \in Texts, successful \in BOOLEAN :
       Becomes(readerOnEnd(
         [Begin(World, "streamEnd", text) EXCEPT !.env.streams = @ - 1],
         text, successful))

NextClip ==
  \/ TransportConnected(1)
  \/ TransportClosed(1)
  \/ ClientError(1)
  \/ Disconnect
  \/ HostCopy
  \/ PollTick
  \/ ClipWindowFocus
  \/ ReadSettles
  \/ WriteSettles
  \/ Paste
  \/ StreamBegins
  \/ StreamEnds
  \/ ObserverSignal
  \/ DebounceFire

SpecClip == InitClip /\ [][NextClip]_vars

----------------------------------------------------------------------------
(* Properties of the clipboard synchronizer *)

ClipboardSends(o) ==
  {k \in DOMAIN o.sent : o.sent[k].op = "clipboard"}

C15_Step ==
  (/\ out'.op = "read"
   /\ out'.arg.granted
   /\ out'.arg.text # ""
   /\ out'.arg.text = clip.lastRemoteClipboard)
  => /\ ClipboardSends(out') = {}
     /\ clip' = clip

\* C15: once a remote stream delivering X has ended (lastRemoteClipboard is
\* X), a poll or focus read that returns X sends nothing to the remote,
\* whether the host clipboard write succeeded, failed or is still in flight.
C15_NoEchoOfRemoteText == [][C15_Step]_vars

C15_Witness ==
  /\ out.op = "read"
  /\ out.arg.granted
  /\ out.arg.text = "X"
  /\ clip.lastRemoteClipboard = "X"
  /\ clip.lastLocalClipboard # "X"
  /\ clip.client
  /\ out.sent = <<>>

\* C16: the poll and focus path never sends to the remote a text that is in
\* the host clipboard only because the synchronizer wrote it there from a
\* remote stream.
C16_NoFeedbackLoop ==
  (out.op = "read" /\ ClipboardSends(out) # {}) => out.arg.origin # "remote"

C17_Step ==
  /\ (out'.op = "paste" /\ clip.isMonitoring /\ out'.arg # "")
        => /\ Len(out'.sent) = 1
           /\ out'.sent[1].op = "clipboard"
           /\ out'.sent[1].a = out'.arg
           /\ clip'.lastLocalClipboard = out'.arg
  /\ (out'.op = "read" /\ out'.arg.text = clip.lastLocalClipboard)
        => ClipboardSends(out') = {}

SentOnce(o, text) == o.sent = << Instr("clipboard", text, 0, TRUE) >>

C32_StatedStep ==
  (out'.op = "read" /\ out'.arg.granted)
  => /\ ClipboardSends(out') # {} <=> WorthSending(World, out'.arg.text)
     /\ ClipboardSends(out') # {}
           => /\ Len(out'.sent) = 1
              /\ out'.sent[1].a = out'.arg.text
              /\ clip'.lastLocalClipboard = out'.arg.text

\* C32 as stated: a read of the host clipboard started by a poll tick or a
\* focus event sends the text read if and only if it is non-empty and
\* differs from both last values; the send is one clipboard stream carrying
\* the text, and the text becomes the last local value.
C32_SentIffNew == [][C32_StatedStep]_vars

C32_Step ==
  (out'.op = "read" /\ out'.arg.granted)
  => LET text == out'.arg.text
     IN /\ ClipboardSends(out') # {}
              <=> (WorthSending(World, text) /\ clip.client)
        /\ ClipboardSends(out') # {}
              => /\ Len(out'.sent) = 1
                 /\ out'.sent[1].a = text
                 /\ out'.sent[1].ok => SentOnce(out', text)
        /\ IF WorthSending(World, text)
           THEN clip' = [clip EXCEPT !.lastLocalClipboard = text]
           ELSE clip' = clip

\* C32: a read of the host clipboard started by a poll tick or a focus event
\* makes a send of the text read if and only if the text is non-empty and
\* differs from both last values and the synchronizer still holds its
\* transport; the send is one clipboard stream carrying the text, complete
\* unless the transport throws; a text that is non-empty and differs from
\* both last values becomes the last local value whether or not it was
\* sent, and nothing else changes, so a later read of the same text sends
\* nothing.
C32_SentIffNewWhileAlive == [][C32_Step]_vars

C32_Witness ==
  /\ out.op = "read"
  /\ out.arg.granted
  /\ SentOnce(out, "Y")
  /\ clip.lastLocalClipboard = "Y"
  /\ clip.lastRemoteClipboard = "X"
  /\ \E i \in DOMAIN dom.reads : dom.reads[i].text = "Y"

Completions == {"read", "write", "streamEnd"}

C19_Step ==
  (out'.op \in Completions /\ ~clip.client)
  => /\ out'.sent = <<>>
     /\ dom'.clipboard = dom.clipboard
     /\ Len(dom'.writes) <= Len(dom.writes)
     /\ clip'.lastLocalClipboard = clip.lastLocalClipboard
     /\ clip'.lastRemoteClipboard = clip.lastRemoteClipboard

\* C19: a clipboard read, a clipboard write or a remote clipboard stream that
\* completes after the synchronizer was destroyed sends nothing, writes
\* nothing to the host clipboard and leaves both last values as they were.
C19_LateCompletionIsNoOp == [][C19_Step]_vars

Denied(o) == o.op \in {"read", "write"} /\ ~o.arg.granted

Threw(o) == \E k \in DOMAIN o.sent : ~o.sent[k].ok

C20_Step ==
  /\ (Denied(out') \/ Threw(out'))
        => /\ out'.errors = 0
           /\ out'.teardown = <<>>
           /\ \A k \in DOMAIN out'.stateLog :
                 out'.op = "connected" /\ out'.stateLog[k][2] = "CONNECTED"
           /\ ManagerRefs(conn') = ManagerRefs(conn)
  /\ (out'.op = "read" /\ ~out'.arg.granted)
        => /\ clip' = clip
           /\ dom'.clipboardAPI = dom.clipboardAPI

\* C20: a denied clipboard read or write, a clipboard send that throws and a
\* sendSize that throws change no ConnectionState, invoke no error
\* notification and start no teardown; a denied read leaves the poll timer
\* and the listeners as they were, so the next tick reads again.
C20_NonFatalContained == [][C20_Step]_vars

C20_Witness ==
  /\ out.op = "read"
  /\ ~out.arg.granted
  /\ conn.state = "CONNECTED"
  /\ clip.clipboardCheckInterval /\ clip.focusListener /\ clip.pasteListener
  /\ dom.clipboardAPI

----------------------------------------------------------------------------
(* The cursor projector in one session of the controller *)

\* The remote pushes a cursor image, or an empty one; the display reports it
\* from the handshake on, for as long as its transport delivers.
CursorPush ==
  /\ cur.oncursor
  /\ env.nSessions # 0
  /\ env.phase[env.nSessions] \in {"opening", "open", "failedC"}
  /\ \E canvas \in BOOLEAN :
       Becomes(oncursor(Begin(World, "oncursor", canvas), canvas))

\* reset() of the live MouseCursorManager
CursorReset ==
  /\ conn.mouseCursorManager
  /\ Becomes(curReset(Begin(World, "reset", 0)))

NextCur ==
  \/ TransportConnected(1)
  \/ TransportClosed(1)
  \/ ClientError(1)
  \/ Disconnect
  \/ CursorPush
  \/ CursorReset
  \/ HostLayout
  \/ ObserverSignal
  \/ DebounceFire

\* The state connect() leaves: the projector constructed, the host pointer
\* hidden over the display.
InitCur == \E g \in Geoms : Starts(Wired(g))

SpecCur == InitCur /\ [][NextCur]_vars

----------------------------------------------------------------------------
(* Properties of the cursor projector *)

HostPointerVisible == dom.cursor \in {"auto", "default"}

RemoteCursorApplied == dom.cursor = "image"

\* C18 as stated: in CONNECTED exactly one of the host pointer and the remote
\* cursor image shows over the display: never both, never neither.
C18_ExactlyOneCursor ==
  conn.state = "CONNECTED" => (HostPointerVisible <=> ~RemoteCursorApplied)

\* C18 amended: in CONNECTED, with the session's cursor projector alive, the
\* host pointer never shows over the display, and the remote cursor image is
\* applied exactly while the last push of the remote carried an image and
\* reset() was not called since; after an empty push, after reset() and
\* before the first push neither cursor shows.
C18_AtMostRemoteCursor ==
  (conn.state = "CONNECTED" /\ conn.mouseCursorManager)
  => /\ ~HostPointerVisible
     /\ RemoteCursorApplied <=> cur.isRemoteCursorVisible
     /\ out.op = "oncursor" => (RemoteCursorApplied <=> out.arg)
     /\ out.op = "reset" => ~RemoteCursorApplied

C18_Witness ==
  /\ conn.state = "CONNECTED"
  /\ out.op = "oncursor"
  /\ out.arg = FALSE
  /\ dom.cursor = "none"
  /\ conn.mouseCursorManager
  /\ cur.oncursor

ProjectorDestroyed == "cursor" \in Range(out.teardown)

\* C35: from its construction until its destroy() the projector keeps the
\* host pointer off the display: the pointer style is hidden at
\* construction, and after every push of the remote and every reset() it is
\* the remote's image with cursor-visible set, or hidden with cursor-visible
\* clear; an empty push and reset() always lead to hidden.  destroy()
\* restores the default pointer and unregisters the display callback.
C35_HostPointerNeverShown ==
  /\ conn.mouseCursorManager
        => /\ cur.oncursor
           /\ dom.cursor = IF cur.isRemoteCursorVisible THEN "image" ELSE "none"
           /\ out.op = "init" => dom.cursor = "none"
           /\ out.op = "oncursor" => (cur.isRemoteCursorVisible <=> out.arg)
           /\ out.op = "reset" => ~cur.isRemoteCursorVisible
  /\ ProjectorDestroyed
        => /\ ~conn.mouseCursorManager
           /\ dom.cursor = "default"
           /\ ~cur.oncursor

C35_Witness ==
  /\ conn.state = "CONNECTING"
  /\ conn.mouseCursorManager
  /\ out.op = "oncursor"
  /\ out.arg
  /\ dom.cursor = "image"

----------------------------------------------------------------------------
(* The controller with a transport that answers a close request: once      *)
(* client.disconnect() was called on it, the transport signals closed or   *)
(* reports an error after finitely many steps.                             *)

\* A transport that was asked to close signals closed or reports an error.
TransportEnds ==
  \E i \in Sessions :
    /\ env.phase[i] = "closing"
    /\ (TransportClosed(i) \/ TunnelError(i) \/ ClientError(i))

NextLive ==
  \/ Connect
  \/ Disconnect
  \/ AuthClear
  \/ \E i \in Sessions : TransportConnected(i)
  \/ \E i \in Sessions : TransportClosed(i)
  \/ \E i \in Sessions : TunnelError(i)
  \/ \E i \in Sessions : ClientError(i)

\* A controller just constructed, both listeners of the UI registered.
InitLive ==
  Starts([Fresh(CHOOSE g \in Geoms : g.w > 0) EXCEPT
            !.conn.onStateChangeCallback = TRUE,
            !.conn.onErrorCallback = TRUE])

SpecLive == InitLive /\ [][NextLive]_vars /\ WF_vars(TransportEnds)

----------------------------------------------------------------------------
(* The controller reconnecting once more: three transports, so that one    *)
(* can be abandoned in its handshake while another is being closed.        *)

ConnectAgain ==
  \E throwAt \in ThrowPoints :
    /\ env.nSessions <= MaxSessions
    /\ Becomes(connect(Begin(World, "connect", 0), throwAt))

NextAbandon ==
  \/ ConnectAgain
  \/ Disconnect
  \/ \E i \in Sessions : TransportConnected(i)
  \/ \E i \in Sessions : TransportClosed(i)
  \/ \E i \in Sessions : TunnelError(i)
  \/ \E i \in Sessions : ClientError(i)

SpecAbandon == InitLive /\ [][NextAbandon]_vars

----------------------------------------------------------------------------
(* Termination of disconnect() *)

Terminal == {"DISCONNECTED", "ERROR"}

\* disconnect() was called in CONNECTED and has returned.
DisconnectRequested ==
  /\ out.op = "disconnect"
  /\ out.stateLog = << <<"CONNECTED", "DISCONNECTING">> >>

TornDown ==
  /\ conn.state \in Terminal
  /\ ManagerRefs(conn) = {FALSE}
  /\ ~clip.client /\ ~kbd.client /\ ~cur.oncursor /\ ~res.client
  /\ ~LiveHooks(World)
  /\ conn.client = 0 /\ conn.tunnel = 0
  /\ ~conn.display /\ ~conn.mouse /\ ~conn.keyboard /\ ~conn.container

C21_Step ==
  /\ (out'.op = "disconnect" /\ conn.state = "CONNECTED" /\ conn.client # 0)
        => /\ conn'.state = "DISCONNECTING"
           /\ env'.phase[conn.client] = "closing"
  /\ (out'.op = "connect" /\ conn.state = "DISCONNECTED")
        => /\ out'.stateLog # <<>>
           /\ Head(out'.stateLog)[1] = "DISCONNECTED"
           /\ Head(out'.stateLog)[2] =
                 IF env.tokenValid THEN "CONNECTING" ELSE "ERROR"

\* C21: disconnect() in CONNECTED asks the transport to close; with a
\* transport that then signals closed or reports an error, the controller
\* leaves DISCONNECTING and is in DISCONNECTED or ERROR with the teardown
\* done; connect() in DISCONNECTED is acted on (CONNECTING, or ERROR with
\* an invalid credential) and not ignored.
C21_DisconnectTerminates ==
  /\ DisconnectRequested ~> TornDown
  /\ [][C21_Step]_vars

C21_Witness ==
  /\ out.op = "closed"
  /\ out.stateLog = << <<"DISCONNECTING", "DISCONNECTED">> >>
  /\ TornDown
  /\ env.nSessions < MaxSessions

----------------------------------------------------------------------------
(* Properties of the notifications *)

\* The states entered by the transitions of log, in order.
Entered(log) == [k \in DOMAIN log |-> log[k][2]]

\* log is a chain of real changes leading from state a to state b.
ChainFromTo(log, a, b) ==
  /\ \A k \in DOMAIN log : log[k][1] # log[k][2]
  /\ \A k \in DOMAIN log :
        log[k][1] = IF k = 1 THEN a ELSE log[k - 1][2]
  /\ b = IF log = <<>> THEN a ELSE log[Len(log)][2]

StateNotifications(o) == SelectSeq(o.events, LAMBDA e : e \in ConnectionState)

C22_Step ==
  /\ ChainFromTo(out'.stateLog, conn.state, conn'.state)
  /\ conn.onStateChangeCallback
        => /\ out'.notified = Entered(out'.stateLog)
           /\ StateNotifications(out') = out'.notified
  /\ (conn.onStateChangeCallback /\ conn.onErrorCallback)
        => \A k \in DOMAIN out'.events :
             /\ out'.events[k] = "ERROR"
                   => k < Len(out'.events) /\ out'.events[k + 1] = "error"
             /\ out'.events[k] = "error"
                   => /\ k < Len(out'.events) /\ out'.events[k + 1] = "cleanup"
                      /\ \A j \in 1..k : out'.events[j] # "cleanup"
                      /\ conn.state # "ERROR"
                            => k > 1 /\ out'.events[k - 1] = "ERROR"

\* C22: with the listeners registered, the state-change notifications of a
\* handler are exactly the states it enters, one per change of
\* ConnectionState and in the order of the changes; a transition to the
\* current state changes and notifies nothing.  On a fatal error the
\* notification of ERROR comes first, the error notification next, and
\* cleanup() starts only after both.
C22_NotificationsFollowTransitions == [][C22_Step]_vars

C22_Witness ==
  /\ out.op = "clientError"
  /\ out.stateLog = << <<"CONNECTED", "ERROR">> >>
  /\ out.events = <<"ERROR", "error", "cleanup">>
  /\ out.teardown = TeardownOrder

----------------------------------------------------------------------------
(* Properties of disconnect() *)

TransportErrors == {"tunnelError", "clientError"}

\* disconnect() with no transport: DISCONNECTED when it returns, the teardown
\* done inside the call.
C23_Synchronous ==
  (out'.op = "disconnect" /\ conn.client = 0)
  => /\ conn'.state = "DISCONNECTED"
     /\ conn.state # "DISCONNECTED"
           => /\ out'.stateLog = << <<conn.state, "DISCONNECTING">>,
                                    <<"DISCONNECTING", "DISCONNECTED">> >>
              /\ out'.teardown # <<>>
     /\ env' = env

\* disconnect() with a transport: a close is requested and nothing is torn
\* down.
C23_Requested ==
  (out'.op = "disconnect" /\ conn.client # 0)
  => /\ conn'.state = "DISCONNECTING"
     /\ conn'.client = conn.client
     /\ env'.phase[conn.client] = "closing"
     /\ out'.teardown = <<>>

LeavesDisconnecting ==
  conn.state = "DISCONNECTING" /\ conn'.state # "DISCONNECTING"

C23_Step ==
  /\ C23_Synchronous
  /\ C23_Requested
  /\ LeavesDisconnecting
        => \/ out'.op = "closed" /\ conn'.state = "DISCONNECTED"
           \/ out'.op \in TransportErrors /\ conn'.state = "ERROR"

\* C23: disconnect() without a transport is in DISCONNECTED when it returns;
\* with a transport it only requests the close, and DISCONNECTING is then
\* left only by a closed signal (to DISCONNECTED) or, by the design's error
\* transition, by an error report (to ERROR).
C23_DisconnectingUntilTransportEnds == [][C23_Step]_vars

----------------------------------------------------------------------------
(* Properties of the number of teardowns *)

\* How many entries of the sequence q satisfy Test.
Count(q, Test(_)) == Cardinality({k \in DOMAIN q : Test(q[k])})

TerminalTransitions(o) == Count(o.stateLog, LAMBDA tr : tr[2] \in Terminal)

Cleanups(o) == Count(o.events, LAMBDA e : e = "cleanup")

C24_Step == Cleanups(out') = TerminalTransitions(out')

\* C24: every handler runs cleanup() once for each transition into
\* DISCONNECTED or ERROR it makes, and not at all when it makes none.
C24_TeardownOncePerTerminalTransition == [][C24_Step]_vars

----------------------------------------------------------------------------
(* Properties of the input forwarding *)

KeyEvents == {"keydown", "keyup"}

\* C25: a key event handled while the state is CONNECTING hands no
\* instruction to the transport.
C25_NoInputBeforeConnected ==
  (out.op \in KeyEvents /\ conn.state = "CONNECTING") => out.sent = <<>>

----------------------------------------------------------------------------
(* Properties of start(), stop() and forceResize() of the negotiator *)

\* No resize signal can arrive and no debounced recalculation is pending.
Detached(r, d) ==
  /\ ~r.resizeObserver
  /\ ~r.windowListener
  /\ ~r.debounceTimer
  /\ d.timeouts = <<>>

C26_Step ==
  /\ (out'.op = "start" /\ ~res.isActive /\ res.client)
        => /\ Detached(res, dom)
           /\ LET size == calculateOptimalSize(World)
              IN \E ok \in BOOLEAN :
                   out'.sent = << Instr("size", size.width, size.height, ok) >>
           /\ res'.isActive /\ res'.resizeObserver /\ res'.windowListener
           /\ dom'.timeouts = <<>>
  /\ (out'.op = "start" /\ res.isActive)
        => /\ out'.sent = <<>>
           /\ res' = res
           /\ dom' = dom

Halts == {"stop", "destroy"}

C27_Step ==
  /\ out'.op \in Halts
        => /\ out'.sent = <<>>
           /\ ~res'.isActive
           /\ Detached(res', dom')
  /\ ~res'.isActive => Detached(res', dom')
  /\ out'.op = "debounce" => res.isActive /\ res.debounceTimer
  /\ out'.op = "forceResize"
        => /\ dom'.timeouts = dom.timeouts
           /\ res'.debounceTimer = res.debounceTimer
           /\ LET size == calculateOptimalSize(World)
              IN IF <<size.width, size.height>> = LastSent \/ ~res.client
                 THEN out'.sent = <<>>
                 ELSE \E ok \in BOOLEAN :
                        out'.sent =
                          << Instr("size", size.width, size.height, ok) >>

\* C27: stop() and destroy() send nothing and leave the negotiator with no
\* debounce timer pending and the observer and window listener detached,
\* also when a resize signal has set a timer that has not run yet; while the
\* negotiator is not started no timer is pending, so a debounced
\* recalculation runs only between a start() and the next stop().
\* forceResize() recalculates at once from the container's geometry and
\* neither sets nor cancels a timer.
C27_StopCancelsDebounce == [][C27_Step]_vars

C27_Witness ==
  /\ out.op \in Halts
  /\ out.events = <<"clearTimeout">>
  /\ out.sent = <<>>
  /\ Detached(res, dom)


Dims(i) == <<i.a, i.b>>

\* The size instructions of the sequence q that were sent successfully.
Successful(q) == SelectSeq(q, LAMBDA i : i.op = "size" /\ i.ok)

\* lastWidth/lastHeight follow the successful sends and nothing else.
LastSentFollows ==
  LET done == Successful(out'.sent)
  IN LastSent' = IF done = <<>> THEN LastSent ELSE Dims(done[Len(done)])

\* A failed send stays inside sendSizeUpdate.
Contained ==
  Threw(out') => /\ out'.errors = 0
                 /\ out'.teardown = <<>>
                 /\ conn' = conn

\* A recalculation sends the size it computes unless it is the last one sent.
RecalculationSends ==
  (out'.op \in Recalculations /\ res.client)
  => LET size == calculateOptimalSize(World)
     IN <<size.width, size.height>> # LastSent
           => /\ Len(out'.sent) = 1
              /\ Dims(out'.sent[1]) = <<size.width, size.height>>

C28_StatedStep ==
  /\ LastSentFollows
  /\ Contained
  /\ RecalculationSends
  /\ \A k \in DOMAIN out'.sent :
        ~out'.sent[k].ok => Dims(out'.sent[k]) # LastSent'

C28_Step ==
  /\ LastSentFollows
  /\ Contained
  /\ RecalculationSends
  /\ \A k \in DOMAIN out'.sent :
        ~out'.sent[k].ok
        => \/ Dims(out'.sent[k]) # LastSent'
           \/ out'.op = "start" /\ Dims(out'.sent[k]) = LastSent

----------------------------------------------------------------------------
(* The remote's clipboard streams in one session: client.onclipboard, the  *)
(* text chunks each reader receives, the end of a stream and the host      *)
(* clipboard write it starts.                                              *)

\* A reader just constructed for a text/plain stream; chunks is the history
\* of what the stream delivered.
NewReader == [clipboardData |-> "", chunks |-> <<>>]

InFlight == Len(env.readers) + Len(dom.writes)

\* client.onclipboard(stream, mimetype): only text/plain gets a reader.
ReaderOpens ==
  /\ Delivering(env.nSessions)
  /\ clip.client
  /\ \E plain \in BOOLEAN :
       /\ plain => InFlight < MaxPending
       /\ Becomes([Begin(World, "onclipboard", plain) EXCEPT
                     !.env.readers = IF plain THEN Append(@, NewReader) ELSE @])

\* reader.ontext(text)
ReaderText ==
  \E i \in DOMAIN env.readers, text \in Texts :
    /\ Delivering(env.nSessions)
    /\ env.delivered < MaxChunks
    /\ Becomes([Begin(World, "ontext", text) EXCEPT
                  !.env.readers[i].clipboardData = readerOnText(@, text),
                  !.env.readers[i].chunks = Append(@, text),
                  !.env.delivered = @ + 1])

\* reader.onend()
ReaderEnds ==
  \E i \in DOMAIN env.readers, successful \in BOOLEAN :
    /\ Delivering(env.nSessions)
    /\ LET r == env.readers[i]
           arg == [chunks |-> r.chunks, successful |-> successful]
       IN Becomes(readerOnEnd(
            [Begin(World, "onend", arg) EXCEPT !.env.readers = Without(@, i)],
            r.clipboardData, successful))

\* The writeText() promise of updateLocalClipboard settles.
ReaderWriteSettles ==
  \E i \in DOMAIN dom.writes, granted \in BOOLEAN, successful \in BOOLEAN :
    LET arg == [text |-> dom.writes[i], granted |-> granted,
                successful |-> successful]
    IN Becomes(writeSettled(
         [Begin(World, "written", arg) EXCEPT !.dom.writes = Without(@, i)],
         dom.writes[i], granted, successful))

NextStream ==
  \/ TransportConnected(1)
  \/ ReaderOpens
  \/ ReaderText
  \/ ReaderEnds
  \/ ReaderWriteSettles

SpecStream == InitClip /\ [][NextStream]_vars

----------------------------------------------------------------------------
(* Properties of the remote clipboard streams *)

\* The chunks of q joined in order.
RECURSIVE Concat(_)
Concat(q) == IF q = <<>> THEN "" ELSE Head(q) \o Concat(Tail(q))

HostClipboardKept == dom'.clipboard = dom.clipboard /\ dom'.writes = dom.writes

Written(text) == dom'.clipboard = [text |-> text, origin |-> "remote"]

C33_Step ==
  /\ out'.op \in {"onclipboard", "ontext"} => HostClipboardKept /\ clip' = clip
  /\ (out'.op = "onclipboard" /\ ~out'.arg)
        => <<conn', clip', kbd', cur', res', dom', env'>>
             = <<conn, clip, kbd, cur, res, dom, env>>
  /\ out'.op = "onend"
        => LET text == Concat(out'.arg.chunks)
           IN /\ clip'.lastRemoteClipboard = text
              /\ IF dom.clipboardAPI
                 THEN /\ dom'.writes = Append(dom.writes, text)
                      /\ dom'.clipboard = dom.clipboard
                 ELSE /\ dom'.writes = dom.writes
                      /\ IF out'.arg.successful THEN Written(text)
                         ELSE dom'.clipboard = dom.clipboard
  /\ out'.op = "written"
        => IF out'.arg.granted \/ out'.arg.successful
           THEN Written(out'.arg.text)
           ELSE dom'.clipboard = dom.clipboard

\* C33: while a text/plain stream of the remote is open nothing is written
\* to the host clipboard; at its end the text handed to the host clipboard
\* write is the chunks received, joined in arrival order, and the last remote
\* value is that text; without the Clipboard API, or when its write is
\* rejected, the fallback copy is made with the same text.  A stream of
\* another mime type changes nothing.
C33_WrittenAtStreamEnd == [][C33_Step]_vars

C33_Witness ==
  /\ out.op = "written"
  /\ ~out.arg.granted
  /\ out.arg.successful
  /\ out.arg.text = "YX"
  /\ dom.clipboard.text = "YX"
  /\ clip.lastRemoteClipboard = "YX"

----------------------------------------------------------------------------
(* A ClipboardManager whose owner starts, stops and destroys it in any     *)
(* order, with the page's poll timer, focus and paste events.              *)

MonStart == Becomes(clipStartMonitoring(Begin(World, "startMonitoring", 0)))

MonStop == Becomes(clipStopMonitoring(Begin(World, "stopMonitoring", 0)))

MonDestroy == Becomes(clipDestroy(Begin(World, "clipDestroy", 0)))

NextMon ==
  \/ MonStart
  \/ MonStop
  \/ MonDestroy
  \/ HostCopy
  \/ PollTick
  \/ ClipWindowFocus
  \/ ReadSettles
  \/ Paste

SpecMon == InitClip /\ [][NextMon]_vars

----------------------------------------------------------------------------
(* Properties of the clipboard monitoring lifecycle *)

Monitoring(c, d) ==
  /\ c.isMonitoring
  /\ c.clipboardCheckInterval
  /\ d.intervals = 1
  /\ c.focusListener
  /\ c.pasteListener

NotMonitoring(c, d) ==
  /\ ~c.isMonitoring
  /\ ~c.clipboardCheckInterval
  /\ d.intervals = 0
  /\ ~c.focusListener
  /\ ~c.pasteListener

C34_Step ==
  /\ Monitoring(clip', dom') \/ NotMonitoring(clip', dom')
  /\ out'.op = "startMonitoring"
        => /\ Monitoring(clip', dom')
           /\ clip.isMonitoring => (clip' = clip /\ dom' = dom)
  /\ out'.op \in {"stopMonitoring", "clipDestroy"} => NotMonitoring(clip', dom')
  /\ out'.op = "clipDestroy" => ~clip'.client
  /\ out'.op \in {"poll", "focusRead", "paste"} => Monitoring(clip, dom)

\* C34: whatever the order of startMonitoring(), stopMonitoring() and
\* destroy(), the page has at most one poll timer of the synchronizer and
\* the focus and paste listeners are registered at most once, all of them
\* exactly while monitoring; startMonitoring() while monitoring changes
\* nothing; after stopMonitoring() or destroy() there is no timer and no
\* listener, so no tick fires and no focus or paste event is handled; after
\* destroy() the transport reference is released.
C34_MonitoringLifecycle == [][C34_Step]_vars

C34_Witness ==
  /\ out.op = "clipDestroy"
  /\ NotMonitoring(clip, dom)
  /\ ~clip.client
  /\ Len(dom.reads) = MaxPending

----------------------------------------------------------------------------
(* Properties of the CONNECTED state *)

\* C36: in CONNECTED the controller holds its transport and its display, all
\* four subsystems exist, the clipboard synchronizer is monitoring, the
\* keyboard guard is active and the resolution negotiator is started.
C36_ConnectedIsWired ==
  conn.state = "CONNECTED"
  => /\ conn.client # 0
     /\ conn.tunnel # 0
     /\ conn.display
     /\ ManagerRefs(conn) = {TRUE}
     /\ clip.isMonitoring
     /\ kbd.isActive
     /\ res.isActive

----------------------------------------------------------------------------
(* Properties of the callbacks of an earlier transport *)

TransportCallbacks == {"connected", "closed", "tunnelError", "clientError"}

C37_Step ==
  (/\ out'.op \in TransportCallbacks
   /\ out'.arg < env.nSessions
   /\ conn.client = env.nSessions)
  => /\ conn' = conn
     /\ <<clip', kbd', cur', res'>> = <<clip, kbd, cur, res>>
     /\ out'.stateLog = <<>>
     /\ out'.events = <<>>
     /\ out'.errors = 0
     /\ out'.teardown = <<>>

\* C37: a connected, closed or error signal of an earlier transport,
\* delivered while the controller holds the transport a later connect()
\* built, changes neither the ConnectionState nor any handle or
\* subsystem of the current session, fires no state or error notification
\* and runs no teardown.
C37_StaleCallbacksIgnored == [][C37_Step]_vars

----------------------------------------------------------------------------
(* One session with everything the page can still deliver once the        *)
(* session is over: the keyboard and mouse adapters stay attached to the   *)
(* document and the display element after the controller drops them, and   *)
(* listeners, timers and clipboard reads outlive the teardown unless a     *)
(* destroy() removed them.                                                 *)

AdapterKeyDown ==
  \E k \in Keys :
    /\ env.nSessions # 0
    /\ Becomes(keyDown(Begin(World, "keydown", k), k))

AdapterKeyUp ==
  \E k \in Keys :
    /\ env.nSessions # 0
    /\ Becomes(keyUp(Begin(World, "keyup", k), k))

AdapterMouse ==
  /\ env.nSessions # 0
  /\ Becomes(mouseHandler(Begin(World, "mouse", 0)))

NextLate ==
  \/ TransportConnected(1)
  \/ TransportClosed(1)
  \/ ClientError(1)
  \/ Disconnect
  \/ AdapterKeyDown
  \/ AdapterKeyUp
  \/ AdapterMouse
  \/ WindowBlur
  \/ WindowFocus
  \/ HostCopy
  \/ PollTick
  \/ ClipWindowFocus
  \/ ReadSettles
  \/ Paste
  \/ ObserverSignal
  \/ WindowResize
  \/ DebounceFire

SpecLate == InitClip /\ [][NextLate]_vars

----------------------------------------------------------------------------
(* Properties of the released transport *)

\* cleanup() has run to its end and no connect() has built a transport since.
Released(c, e) == c.client = 0 /\ c.tunnel = 0 /\ e.nSessions # 0

C38_Step == Released(conn, env) => out'.sent = <<>>

\* C38: from the end of teardown until a new session is opened, no handler
\* hands an instruction to the transport: late key and mouse events of the
\* adapters, paste, focus and blur events, resize signals, timer callbacks
\* and clipboard reads completing late send no key, mouse, size or clipboard
\* instruction.
C38_NothingSentAfterTeardown == [][C38_Step]_vars

C38_Witness ==
  /\ Released(conn, env)
  /\ out.op = "read"
  /\ out.arg.granted
  /\ out.arg.text = "X"
  /\ clip.lastLocalClipboard = "X"
  /\ Range(kbd.pressedKeys) = Keys
  /\ out.sent = <<>>

----------------------------------------------------------------------------
(* The clipboard reads of one monitored session, with the history of the  *)
(* reads that were in flight together.                                     *)

\* The record t, reached by settling read i, with the history of the reads
\* still in flight: env.twins holds the positions of those that were in
\* flight together with a read that delivered the same text and sent it.
Twinned(t, i, text) ==
  [t EXCEPT !.env.twins =
     LET kept == {j \in @ : j < i} \cup {j - 1 : j \in {k \in @ : k > i}}
     IN IF ClipboardSends(t.out) # {}
        THEN kept \cup {j \in DOMAIN t.dom.reads : t.dom.reads[j].text = text}
        ELSE kept]

\* A readText() promise resolves with the text read.
ReadResolves ==
  \E i \in DOMAIN dom.reads, ok \in BOOLEAN :
    LET r == dom.reads[i]
        arg == [text |-> r.text, origin |-> r.origin, granted |-> TRUE,
                twin |-> i \in env.twins]
    IN Becomes(Twinned(
         readSettled(
           [Begin(World, "read", arg) EXCEPT !.dom.reads = Without(@, i)],
           r.text, TRUE, ok),
         i, r.text))

NextRace ==
  \/ TransportConnected(1)
  \/ HostCopy
  \/ PollTick
  \/ ClipWindowFocus
  \/ ReadResolves
  \/ Paste

SpecRace == InitClip /\ [][NextRace]_vars

----------------------------------------------------------------------------
(* Properties of reads in flight together *)

C39_StatedStep ==
  (out'.op = "read" /\ out'.arg.granted /\ out'.arg.twin)
  => ClipboardSends(out') = {}

\* C39 as stated: of two reads of the host clipboard in flight at the same
\* time that both resolve with the same new text, only the first sends it.
C39_TwinReadsSendOnce == [][C39_StatedStep]_vars

C39_Step ==
  (out'.op = "read" /\ out'.arg.granted)
  => LET text == out'.arg.text
     IN /\ ClipboardSends(out') # {}
              => /\ Len(out'.sent) = 1
                 /\ clip'.lastLocalClipboard = text
                 /\ \A j \in DOMAIN dom'.reads :
                       dom'.reads[j].text = text => j \in env'.twins
        /\ (out'.arg.twin /\ clip.lastLocalClipboard = text)
              => /\ out'.sent = <<>>
                 /\ clip' = clip

\* C39: a read that sends its text records it as the last local value in
\* the same step, so every read of the same text still in flight finds it
\* recorded; of two reads in flight at the same time that both resolve with
\* the same new text, the second sends nothing and changes nothing as long
\* as that text is still the last local value when it resolves.
C39_TwinReadsSendOnceWhileRecorded == [][C39_Step]_vars

C39_Witness ==
  /\ out.op = "read"
  /\ out.arg.granted
  /\ out.arg.twin
  /\ out.arg.text = "X"
  /\ clip.lastLocalClipboard = "X"
  /\ clip.client
  /\ out.sent = <<>>

====
